---- MODULE Spec2Model ----
(***************************************************************************)
(* A model of the response-net core of selection-sim (src/ssim/actor.py,   *)
(* src/ssim/state.py): the enumerations Condition, ModificationOperation   *)
(* and Mutation with their weighted samplers, InputModifier, and           *)
(* ResponseNetNode with its recursive generation (random) and its          *)
(* traversal (trigger).                                                    *)
(*                                                                         *)
(* Python objects that the program hands around are records                *)
(*   [type, mut, num, den]                                                 *)
(* int n is ("int", n/1), a float is a reduced fraction ("float", num/den),*)
(* None is ("NoneType"), an exception that ends a call is a record whose   *)
(* type is the exception's class name.                                     *)
(***************************************************************************)
EXTENDS Integers, Sequences, FiniteSets, TLC

VARIABLES
    params,     \* the arguments of the outermost ResponseNetNode.random call
    heap,       \* the ResponseNetNode objects constructed so far, by identity
    stack,      \* the frames of the ResponseNetNode.random calls in progress
    retval,     \* identity of the node the last finished random call returned
    pc,         \* "call" | "ret" | "built" | "RecursionError"
    root,       \* identity of the generated tree's root once pc = "built"
    constructed,\* history: the heap as it was when the tree was returned
    trace,      \* history: the trigger calls made on the tree, with results
    call,       \* a call of one of the helper functions, with its arguments
    result      \* what that call returned (None before it ran)

vars == <<params, heap, stack, retval, pc, root, constructed, trace, call, result>>

----------------------------------------------------------------------------
(* Bounds of the model *)

\* integers handed to is_active and apply range over -MaxInt..MaxInt
MaxInt == 3
\* a weight table holds multiples of 1/WeightUnit that sum to 1
WeightUnit == 2
\* max_applicant / max_input_modifier ranges over 1..MaxOperand
MaxOperand == 2
\* max_children ranges over 1..MaxChildren
MaxChildren == 3
\* the interpreter's limit on nested ResponseNetNode.random frames
RecursionLimit == 2
\* number of trigger calls recorded on one tree
MaxCalls == 2
\* depth bounds a caller may want enforced range over 0..MaxDepthBound
MaxDepthBound == 1

----------------------------------------------------------------------------
(* Python values *)

PyInt(n) == [type |-> "int", mut |-> 0, num |-> n, den |-> 1]
PyBool(b) == [type |-> "bool", mut |-> 0, num |-> IF b THEN 1 ELSE 0, den |-> 1]
None == [type |-> "NoneType", mut |-> 0, num |-> 0, den |-> 1]
Raise(cls) == [type |-> cls, mut |-> 0, num |-> 0, den |-> 1]
TypeError == Raise("TypeError")
ZeroDivisionError == Raise("ZeroDivisionError")
IsException(v) == v.type \in {"TypeError", "ZeroDivisionError"}

Abs(n) == IF n < 0 THEN -n ELSE n
Sign(n) == IF n < 0 THEN -1 ELSE 1

RECURSIVE GCD(_, _)
GCD(m, n) == IF n = 0 THEN m ELSE GCD(n, m % n)

\* a float, kept exact as the reduced fraction n/d (d # 0)
PyFloat(n, d) ==
    LET g == GCD(Abs(n), Abs(d))
    IN [type |-> "float", mut |-> 0,
        num |-> Sign(d) * (n \div g), den |-> Abs(d) \div g]

\* x + k, x - k, x * k for a number x (int or float) and an int k: an int
\* stays an int, a float stays a float
PyAdd(x, k) ==
    IF x.type = "int" THEN PyInt(x.num + k)
    ELSE PyFloat(x.num + k * x.den, x.den)
PySub(x, k) ==
    IF x.type = "int" THEN PyInt(x.num - k)
    ELSE PyFloat(x.num - k * x.den, x.den)
PyMul(x, k) ==
    IF x.type = "int" THEN PyInt(x.num * k) ELSE PyFloat(x.num * k, x.den)

\* Python 3's x / k, true division: always a float, or ZeroDivisionError
PyTrueDiv(x, k) ==
    IF k = 0 THEN ZeroDivisionError ELSE PyFloat(x.num, x.den * k)

----------------------------------------------------------------------------
(* The enumerations: a member is its class and its value *)

EQ == [cls |-> "Condition", value |-> 1]
NE == [cls |-> "Condition", value |-> 2]
GE == [cls |-> "Condition", value |-> 3]
G == [cls |-> "Condition", value |-> 4]
LE == [cls |-> "Condition", value |-> 5]
L == [cls |-> "Condition", value |-> 6]

ADD == [cls |-> "ModificationOperation", value |-> 1]
SUB == [cls |-> "ModificationOperation", value |-> 2]
MUL == [cls |-> "ModificationOperation", value |-> 3]
DIV == [cls |-> "ModificationOperation", value |-> 4]

INJECT == [cls |-> "Mutation", value |-> 1]
DISPLAY == [cls |-> "Mutation", value |-> 2]

\* the population lists handed to numpy.random.choice, in source order
ConditionOrder == <<EQ, NE, GE, G, LE, L>>
ModificationOperationOrder == <<ADD, SUB, MUL, DIV>>
MutationOrder == <<INJECT, DISPLAY>>

----------------------------------------------------------------------------
(* Condition.is_active *)

is_active_strict_ge(self, a, b) ==
    IF self.value = 1 THEN a = b
    ELSE IF self.value = 2 THEN a # b
    ELSE IF self.value = 3 THEN a > b
    ELSE IF self.value = 4 THEN a > b
    ELSE IF self.value = 5 THEN a <= b
    ELSE a < b

is_active(self, a, b) ==
    IF self.value = 1 THEN a = b
    ELSE IF self.value = 2 THEN a # b
    ELSE IF self.value = 3 THEN a >= b
    ELSE IF self.value = 4 THEN a > b
    ELSE IF self.value = 5 THEN a <= b
    ELSE a < b

\* A call self.is_active(*args): the method takes exactly (a, b); any other
\* number of positional arguments ends the call with TypeError.
call_is_active(self, args) ==
    IF Len(args) # 2 THEN TypeError
    ELSE PyBool(is_active(self, args[1], args[2]))

----------------------------------------------------------------------------
(* numpy.random.choice(a, 1, p=weights)[0] and random.randrange(stop) *)

RECURSIVE SumTo(_, _)
SumTo(p, k) == IF k = 0 THEN 0 ELSE SumTo(p, k - 1) + p[k]

\* p.cumsum()
cumsum(p) == [k \in 1..Len(p) |-> SumTo(p, k)]

\* cdf.searchsorted(u, side='right'): how many entries of cdf are <= u
searchsorted_right(cdf, u) == Cardinality({k \in 1..Len(cdf) : cdf[k] <= u})

\* side='left': how many entries of cdf are < u
searchsorted_left(cdf, u) == Cardinality({k \in 1..Len(cdf) : cdf[k] < u})

\* the uniform samples in [0, 1) a draw may see, in units of 1/WeightUnit:
\* the cdf is constant between two multiples of the unit
UniformSamples == 0..(WeightUnit - 1)

choice_side_left(a, p, u) == a[searchsorted_left(cumsum(p), u) + 1]

\* choice on population a with probabilities p, the uniform sample being u
choice(a, p, u) == a[searchsorted_right(cumsum(p), u) + 1]

randrange_inclusive(stop) == 0..stop

\* the values random.randrange(stop) may return, stop > 0
randrange(stop) == 0..(stop - 1)

Condition_random(weights, u) == choice(ConditionOrder, weights, u)
ModificationOperation_random(weights, u) ==
    choice(ModificationOperationOrder, weights, u)
Mutation_random(weights, u) == choice(MutationOrder, weights, u)

----------------------------------------------------------------------------
(* InputModifier *)

InputModifier(modifier_type, modifier_applicant) ==
    [mode |-> modifier_type, applicant |-> modifier_applicant]

\* the InputModifier objects InputModifier.random may return
InputModifier_random(weights, max_applicant) ==
    {InputModifier(ModificationOperation_random(weights, u), r) :
        u \in UniformSamples, r \in randrange(max_applicant)}

\* i is the Python number handed in
apply(self, i) ==
    IF self.mode = ADD THEN PyAdd(i, self.applicant)
    ELSE IF self.mode = SUB THEN PySub(i, self.applicant)
    ELSE IF self.mode = MUL THEN PyMul(i, self.applicant)
    ELSE PyTrueDiv(i, self.applicant)

----------------------------------------------------------------------------
(* ResponseNetNode *)

ResponseNetNode(condition, children, input_modifier, resultant_mutation) ==
    [condition |-> condition, children |-> children,
     input_modifier |-> input_modifier,
     resultant_mutation |-> resultant_mutation]

\* math.floor on an int
floor(n) == n

\* [x] * n: a list holding the one object x, n times
replicate(x, n) == [k \in 1..n |-> x]

\* the test trigger makes of a child: child.condition.is_active(stimulus),
\* a call with the one positional argument
child_test(h, child, stimulus) ==
    call_is_active(h[child].condition, <<stimulus>>)

RECURSIVE trigger(_, _, _)
RECURSIVE trigger_children(_, _, _, _)

\* The for loop of trigger from index i on (lists count from 1 here), with
\* the transformed stimulus. Falling off the end of the function body returns
\* None. The result carries the value returned or raised, the heap as the
\* call leaves it and the nodes the traversal entered.
trigger_children(h, self, stimulus, i) ==
    IF i > Len(h[self].children)
    THEN [ret |-> None, heap |-> h, entered |-> <<self>>]
    ELSE LET child == h[self].children[i]
             active == child_test(h, child, stimulus)
         IN IF IsException(active)
            THEN [ret |-> active, heap |-> h, entered |-> <<self>>]
            ELSE IF active.num = 1
            THEN LET r == trigger(h, child, stimulus)
                 IN [r EXCEPT !.entered = <<self>> \o @]
            ELSE trigger_children(h, self, stimulus, i + 1)

\* a trigger that stores the transformed stimulus in the node's modifier
trigger_storing(h, self, stimulus) ==
    LET s == apply(h[self].input_modifier, stimulus)
    IN IF IsException(s)
       THEN [ret |-> s, heap |-> h, entered |-> <<self>>]
       ELSE trigger_children(
                [h EXCEPT ![self].input_modifier.applicant = s.num],
                self, s, 1)

trigger(h, self, stimulus) ==
    LET s == apply(h[self].input_modifier, stimulus)
    IN IF IsException(s)
       THEN [ret |-> s, heap |-> h, entered |-> <<self>>]
       ELSE trigger_children(h, self, s, 1)

----------------------------------------------------------------------------
(* Inputs *)

\* every weight table over n variants: multiples of 1/WeightUnit, sum 1
WeightTables(n) ==
    {p \in [1..n -> 0..WeightUnit] : SumTo(p, n) = WeightUnit}

\* all the weight on variant k
OneHot(n, k) == [j \in 1..n |-> IF j = k THEN WeightUnit ELSE 0]

\* one unit on variant j, the rest on variant k
Mixed(n, j, k) ==
    [i \in 1..n |-> IF i = j THEN 1 ELSE IF i = k THEN WeightUnit - 1 ELSE 0]

Ints == (-MaxInt)..MaxInt
Conditions == {ConditionOrder[k] : k \in 1..Len(ConditionOrder)}
ModificationOperations ==
    {ModificationOperationOrder[k] : k \in 1..Len(ModificationOperationOrder)}
Mutations == {MutationOrder[k] : k \in 1..Len(MutationOrder)}

\* the stimuli fed to a generated tree
Stimuli == {3, 5}

\* the arguments of the outermost ResponseNetNode.random call
ParamSpace ==
    [condition_weights : {OneHot(6, 1), OneHot(6, 6)},
     max_children : 1..MaxChildren,
     input_modifier_weights : {OneHot(4, 1), Mixed(4, 4, 1)},
     max_input_modifier : 1..MaxOperand,
     mutation_weights : {OneHot(2, 1), Mixed(2, 2, 1)}]

NoCall == [fn |-> "none"]

----------------------------------------------------------------------------
(* Generation and traversal of one tree *)

Init ==
    /\ params \in ParamSpace
    /\ heap = <<>>
    /\ stack = <<>>
    /\ retval = 0
    /\ pc = "call"
    /\ root = 0
    /\ constructed = <<>>
    /\ trace = <<>>
    /\ call = NoCall
    /\ result = None

\* ResponseNetNode.random is entered: it draws n_children and the condition,
\* and calls itself when n_children > 0. Past the interpreter's recursion
\* limit the call raises RecursionError, which unwinds every frame.
RandomEnter ==
    /\ pc = "call"
    /\ IF Len(stack) >= RecursionLimit
       THEN /\ pc' = "RecursionError"
            /\ stack' = <<>>
       ELSE \E r \in randrange(params.max_children), u \in UniformSamples :
               LET n_children == floor(r)
                   condition == Condition_random(params.condition_weights, u)
               IN /\ stack' = Append(stack, [n_children |-> n_children,
                                             condition |-> condition])
                  /\ pc' = IF n_children > 0 THEN "call" ELSE "ret"
    /\ UNCHANGED <<params, heap, retval, root, constructed, trace, call, result>>

\* The innermost ResponseNetNode.random call finishes: its children list is
\* the one node the nested call returned, n_children times; it draws the
\* input modifier and the mutation, constructs its node and returns it.
RandomReturn ==
    /\ pc = "ret"
    /\ LET f == stack[Len(stack)]
       IN \E m \in InputModifier_random(params.input_modifier_weights,
                                        params.max_input_modifier),
             u \in UniformSamples :
            LET children == IF f.n_children > 0
                            THEN replicate(retval, f.n_children) ELSE <<>>
                node == ResponseNetNode(f.condition, children, m,
                            Mutation_random(params.mutation_weights, u))
                id == Len(heap) + 1
            IN /\ heap' = Append(heap, node)
               /\ retval' = id
               /\ stack' = SubSeq(stack, 1, Len(stack) - 1)
               /\ IF Len(stack) = 1
                  THEN /\ pc' = "built"
                       /\ root' = id
                       /\ constructed' = heap'
                  ELSE /\ pc' = "ret"
                       /\ UNCHANGED <<root, constructed>>
    /\ UNCHANGED <<params, trace, call, result>>

\* root.trigger(stimulus) on the generated tree
Trigger(stimulus) ==
    /\ pc = "built"
    /\ Len(trace) < MaxCalls
    /\ LET r == trigger(heap, root, PyInt(stimulus))
       IN /\ heap' = r.heap
          /\ trace' = Append(trace, [stimulus |-> stimulus, ret |-> r.ret,
                                     entered |-> r.entered])
    /\ UNCHANGED <<params, stack, retval, pc, root, constructed, call, result>>

Next ==
    \/ RandomEnter
    \/ RandomReturn
    \/ \E stimulus \in Stimuli : Trigger(stimulus)

Spec == Init /\ [][Next]_vars

----------------------------------------------------------------------------
(* Single calls of the helper functions *)

Calls ==
    [fn : {"is_active"}, self : Conditions, a : Ints, b : Ints]
    \cup [fn : {"apply"},
          self : {InputModifier(m, k) : m \in ModificationOperations, k \in Ints},
          i : Ints]
    \cup [fn : {"Condition.random"}, weights : WeightTables(6)]
    \cup [fn : {"ModificationOperation.random"}, weights : WeightTables(4)]
    \cup [fn : {"Mutation.random"}, weights : WeightTables(2)]
    \cup [fn : {"InputModifier.random"}, weights : WeightTables(4),
          max_applicant : 1..MaxOperand]

InitCalls ==
    /\ call \in Calls
    /\ result = None
    /\ pc = "calling"
    /\ params = NoCall
    /\ heap = <<>>
    /\ stack = <<>>
    /\ retval = 0
    /\ root = 0
    /\ constructed = <<>>
    /\ trace = <<>>

Returns(fn, value) ==
    /\ pc = "calling"
    /\ call.fn = fn
    /\ result' = value
    /\ pc' = "returned"
    /\ UNCHANGED <<params, heap, stack, retval, root, constructed, trace, call>>

CallIsActive ==
    /\ call.fn = "is_active"
    /\ Returns("is_active", call_is_active(call.self, <<call.a, call.b>>))

CallApply ==
    /\ call.fn = "apply"
    /\ Returns("apply", apply(call.self, PyInt(call.i)))

CallConditionRandom ==
    /\ call.fn = "Condition.random"
    /\ \E u \in UniformSamples :
          Returns("Condition.random", Condition_random(call.weights, u))

CallModificationOperationRandom ==
    /\ call.fn = "ModificationOperation.random"
    /\ \E u \in UniformSamples :
          Returns("ModificationOperation.random",
                  ModificationOperation_random(call.weights, u))

CallMutationRandom ==
    /\ call.fn = "Mutation.random"
    /\ \E u \in UniformSamples :
          Returns("Mutation.random", Mutation_random(call.weights, u))

CallInputModifierRandom ==
    /\ call.fn = "InputModifier.random"
    /\ \E m \in InputModifier_random(call.weights, call.max_applicant) :
          Returns("InputModifier.random", m)

NextCalls ==
    \/ CallIsActive
    \/ CallApply
    \/ CallConditionRandom
    \/ CallModificationOperationRandom
    \/ CallMutationRandom
    \/ CallInputModifierRandom

SpecCalls == InitCalls /\ [][NextCalls]_vars

----------------------------------------------------------------------------
(* Properties *)

Returned(fn) == pc = "returned" /\ call.fn = fn

\* the pair (mutation, value) as a Python value
Pair(m, v) == [type |-> "tuple", mut |-> m.value, num |-> v.num, den |-> v.den]

\* the value a trigger call on the root computes first
Transformed(stimulus) == apply(heap[root].input_modifier, PyInt(stimulus))

\* C1: every trigger call ends with a concrete outcome: it returns a pair
\* (mutation, value), and on a root without children that pair is the root's
\* own resultant_mutation with the transformed stimulus. (Calls that divide
\* by zero are left to C6.)
C1_TriggerReturnsOutcome ==
    \A k \in 1..Len(trace) :
        LET c == trace[k]
            v == Transformed(c.stimulus)
        IN ~IsException(v) =>
              /\ c.ret.type = "tuple"
              /\ heap[root].children = <<>> =>
                    c.ret = Pair(heap[root].resultant_mutation, v)

\* C2: at a node with children, every child's test yields a truth value, the
\* traversal enters the first child in list order whose test holds and no
\* other, and stays at the node when no test holds.
C2_FirstMatchWins ==
    \A k \in 1..Len(trace) :
        LET c == trace[k]
            v == Transformed(c.stimulus)
            ch == heap[root].children
            test(i) == child_test(heap, ch[i], v)
            first == {i \in 1..Len(ch) :
                         /\ test(i).num = 1
                         /\ \A j \in 1..(i - 1) : test(j).num = 0}
        IN (~IsException(v) /\ ch # <<>>) =>
              /\ \A i \in 1..Len(ch) : test(i).type = "bool"
              /\ \A i \in first : Len(c.entered) >= 2 /\ c.entered[2] = ch[i]
              /\ first = {} => c.entered = <<root>>

\* C3: is_active(a, b) returns a truth value, and exactly EQ: a = b,
\* NE: a /= b, GE: a >= b, G: a > b, LE: a <= b, L: a < b.
C3_IsActiveTruthTable ==
    Returned("is_active") =>
        /\ result.type = "bool"
        /\ (result.num = 1) <=>
              CASE call.self = EQ -> call.a = call.b
                [] call.self = NE -> call.a < call.b \/ call.b < call.a
                [] call.self = GE -> ~(call.a < call.b)
                [] call.self = G -> call.b < call.a
                [] call.self = LE -> ~(call.b < call.a)
                [] call.self = L -> call.a < call.b

C3_Witness ==
    /\ Returned("is_active")
    /\ call.self = GE
    /\ call.a = call.b
    /\ result = PyBool(TRUE)

\* C4: generation ends with a tree (never with an error), and whatever depth
\* bound max_depth the caller wants, a random call at depth >= max_depth
\* gives its node zero children.
C4_DepthBounded ==
    /\ pc # "RecursionError"
    /\ \A max_depth \in 0..MaxDepthBound :
          \A i \in 1..Len(stack) :
              (i - 1 >= max_depth) => stack[i].n_children = 0

\* C5: the entries of a children list are pairwise different nodes, and no
\* node is the child of two parents.
C5_ChildrenDistinct ==
    \A n \in 1..Len(heap) :
        /\ \A i, j \in 1..Len(heap[n].children) :
              i # j => heap[n].children[i] # heap[n].children[j]
        /\ \A m \in 1..Len(heap) :
              m # n => \A i \in 1..Len(heap[n].children),
                          j \in 1..Len(heap[m].children) :
                          heap[n].children[i] # heap[m].children[j]

\* C6: no node of a generated tree has the modifier DIV with operand 0, and
\* no trigger call ends with a division by zero.
C6_NoDivisionByZero ==
    /\ \A n \in 1..Len(heap) :
          ~(heap[n].input_modifier.mode = DIV
            /\ heap[n].input_modifier.applicant = 0)
    /\ \A k \in 1..Len(trace) : trace[k].ret # ZeroDivisionError

\* C7: apply returns the integer value + operand for ADD, value - operand
\* for SUB, value * operand for MUL, and for DIV with a non-zero operand an
\* integer q with q * operand = value whenever operand divides value.
C7_ApplyInteger ==
    (Returned("apply") /\ ~(call.self.mode = DIV /\ call.self.applicant = 0)) =>
        /\ result.type = "int"
        /\ call.self.mode = ADD => result.num = call.i + call.self.applicant
        /\ call.self.mode = SUB => result.num = call.i - call.self.applicant
        /\ call.self.mode = MUL => result.num = call.i * call.self.applicant
        /\ (call.self.mode = DIV /\ call.i % Abs(call.self.applicant) = 0) =>
              result.num * call.self.applicant = call.i

\* C8: the three samplers never return a variant whose positional weight is
\* 0; under a one-hot table they return the variant at the position of the
\* whole weight, for the orders EQ, NE, GE, G, LE, L / ADD, SUB, MUL, DIV /
\* INJECT, DISPLAY.
C8_NoZeroWeightVariant ==
    /\ Returned("Condition.random") =>
          /\ result \in {EQ, NE, GE, G, LE, L}
          /\ call.weights[result.value] > 0
          /\ \A k \in 1..6 : call.weights[k] = WeightUnit =>
                               result = <<EQ, NE, GE, G, LE, L>>[k]
    /\ Returned("ModificationOperation.random") =>
          /\ result \in {ADD, SUB, MUL, DIV}
          /\ call.weights[result.value] > 0
          /\ \A k \in 1..4 : call.weights[k] = WeightUnit =>
                               result = <<ADD, SUB, MUL, DIV>>[k]
    /\ Returned("Mutation.random") =>
          /\ result \in {INJECT, DISPLAY}
          /\ call.weights[result.value] > 0
          /\ \A k \in 1..2 : call.weights[k] = WeightUnit =>
                               result = <<INJECT, DISPLAY>>[k]

C8_Witness ==
    /\ Returned("Mutation.random")
    /\ call.weights[1] = 0
    /\ call.weights[2] = WeightUnit
    /\ result = DISPLAY

\* C9: InputModifier.random(weights, max_operand), max_operand > 0, returns a
\* modifier with 0 <= operand < max_operand (so operand 0 when max_operand
\* is 1) and an operation ModificationOperation.random(weights) can draw.
C9_OperandInRange ==
    Returned("InputModifier.random") =>
        /\ 0 <= result.applicant
        /\ result.applicant < call.max_applicant
        /\ call.max_applicant = 1 => result.applicant = 0
        /\ result.mode \in {ADD, SUB, MUL, DIV}
        /\ call.weights[result.mode.value] > 0

C9_Witness ==
    /\ Returned("InputModifier.random")
    /\ call.max_applicant > 1
    /\ result.applicant = call.max_applicant - 1
    /\ result.mode = DIV

\* C10: trigger leaves the tree as it was constructed, and two trigger calls
\* with the same stimulus return the same result.
C10_TriggerLeavesTreeUnchanged ==
    pc = "built" =>
        /\ heap = constructed
        /\ \A j, k \in 1..Len(trace) :
              trace[j].stimulus = trace[k].stimulus =>
                  trace[j].ret = trace[k].ret

C10_Witness ==
    /\ pc = "built"
    /\ Len(trace) = 2
    /\ trace[1].stimulus = trace[2].stimulus
    /\ heap[root].children # <<>>
    /\ heap[root].input_modifier.applicant # 0

====
